---- MODULE Spec2Model ----
(***************************************************************************)
(* CSV to Markdown table action: the parser parseCSV, the formatter        *)
(* convertToMarkdownTable and the entry point convertCSVToMarkdown.        *)
(* A string is a sequence of one-character strings; indices into the       *)
(* input are 0-based as in the source.                                     *)
(***************************************************************************)
EXTENDS Integers, Sequences, FiniteSets, TLC

VARIABLES
  hostInput,     \* the host's INPUT_CSVINPUT: [present, value]
  csvinput,      \* const csvinput = core.getInput('csvinput')
  pc,            \* position inside convertCSVToMarkdown
  rows,          \* parseCSV: const rows = []
  currentRow,    \* parseCSV: let currentRow = []
  currentCell,   \* parseCSV: let currentCell = ''
  insideQuotes,  \* parseCSV: let insideQuotes = false
  i,             \* parseCSV: let i = 0
  markdownTable, \* const markdownTable = csvToMarkdown(csvinput)
  output,        \* core.setOutput('markdown-table', ...): [set, value]
  failed,        \* core.setFailed(...): [set, message]
  stdout,        \* console.log(...): [printed, text]
  infoLog,       \* core.info(...) records, in order
  debugLog,      \* core.debug(...) records, in order
  errorLog,      \* core.error(...) records, in order
  error,         \* the Error thrown inside the try block, "" when none
  invoked,       \* the functions of the core called so far
  paddingCache,  \* const paddingCache = new Map(): cacheKey -> padding
  padCall        \* the last getPaddedString call: [called, str, width, result]

vars == <<hostInput, csvinput, pc, rows, currentRow, currentCell, insideQuotes,
          i, markdownTable, output, failed, stdout, infoLog, debugLog,
          errorLog, error, invoked, paddingCache, padCall>>

parserVars == <<rows, currentRow, currentCell, insideQuotes, i>>
hostVars == <<output, failed, stdout, infoLog, debugLog, errorLog>>
cacheVars == <<paddingCache, padCall>>

---------------------------------------------------------------------------
(* Characters *)

QUOTE == "\""
COMMA == ","
LF == "\n"
CR == "\r"
TAB == "\t"
SPACE == " "
PIPE == "|"
DASH == "-"

\* csvString[i + 1] past the end of the string
Undefined == "undefined"

\* The characters String.prototype.trim strips, among those modelled.
WhitespaceChars == {SPACE, TAB, LF, CR}

\* Longest input enumerated exhaustively over Alphabet.
MaxLen == 4

\* Largest processing duration (ms) the clock may report.
MaxDuration == 1

Alphabet == {"a", COMMA, QUOTE, LF, CR, SPACE}

MinimalSample ==
  <<"H", "e", "a", "d", "e", "r", "\n", "V", "a", "l", "u", "e">>

WhitespaceSample ==
  <<" ", " ", " ", "\n", " ", " ", " ", "\t", " ", " ", " ">>

EscapedQuoteSample ==
  <<"N", "a", "m", "e", ",", "Q", "u", "o", "t", "e", "\n", "\"", "J", "o",
    "h", "n", "\"", ",", "\"", "H", "e", " ", "s", "a", "i", "d", " ", "\"",
    "\"", "H", "e", "l", "l", "o", "\"", "\"", " ", "t", "o", " ", "m", "e",
    "\"">>

EscapedQuoteCell ==
  <<"H", "e", " ", "s", "a", "i", "d", " ", "\"", "H", "e", "l", "l", "o",
    "\"", " ", "t", "o", " ", "m", "e">>

QuotedCommaSample ==
  <<"N", "a", "m", "e", ",", "D", "e", "s", "c", "r", "i", "p", "t", "i",
    "o", "n", "\n", "\"", "S", "m", "i", "t", "h", ",", " ", "J", "o", "h",
    "n", "\"", ",", "\"", "A", " ", "p", "e", "r", "s", "o", "n", " ", "w",
    "i", "t", "h", " ", "c", "o", "m", "m", "a", " ", "i", "n", " ", "n",
    "a", "m", "e", "\"">>

QuotedNewlineSample ==
  <<"N", "a", "m", "e", ",", "D", "e", "s", "c", "r", "i", "p", "t", "i",
    "o", "n", "\n", "\"", "J", "o", "h", "n", " ", "S", "m", "i", "t", "h",
    "\"", ",", "\"", "L", "i", "n", "e", " ", "1", "\n", "L", "i", "n", "e",
    " ", "2", "\"">>

CRLFSample ==
  <<"N", "a", "m", "e", ",", "A", "g", "e", "\r", "\n", "J", "o", "h", "n",
    ",", "2", "5", "\r", "\n", "J", "a", "n", "e", ",", "3", "0">>

UnmatchedQuoteSample ==
  <<"N", "a", "m", "e", ",", "A", "g", "e", "\n", "J", "o", "h", "n", ",",
    "2", "5", ",", "\"", "E", "x", "t", "r", "a">>

MalformedSample ==
  <<"N", "a", "m", "e", ",", "A", "g", "e", "\n", "J", "o", "h", "n", ",",
    "2", "5", ",", "E", "x", "t", "r", "a">>

PaddedQuotedSample ==
  <<"N", "a", "m", "e", "\n", "\"", " ", "p", "a", "d", "d", "e", "d", " ",
    "c", "e", "l", "l", " ", "\"">>

PaddedQuotedCell ==
  <<"p", "a", "d", "d", "e", "d", " ", "c", "e", "l", "l">>

WidthSample ==
  <<"N", "a", "m", "e", ",", "A", "g", "e", "\n", "J", "o", "h", "n", ",",
    "2", "5", "\n", "J", "a", "n", "e", ",", "3", "0">>

RaggedSample ==
  <<"N", "a", "m", "e", ",", "A", "g", "e", ",", "C", "i", "t", "y", "\n",
    "J", "o", "h", "n", ",", "2", "5", "\n", "J", "a", "n", "e", ",", "3",
    "0", ",", "N", "e", "w", " ", "Y", "o", "r", "k", ",", "E", "x", "t",
    "r", "a">>

HeaderOnlySample ==
  <<"N", "a", "m", "e", ",", "A", "g", "e", ",", "C", "i", "t", "y">>

PipeSample ==
  <<"C", "m", "d", ",", "U", "s", "e", "\n", "a", "|", "b", ",", "p", "i",
    "p", "e">>

RoundTripSample ==
  <<"H", "e", "a", "d", "e", "r", "\n", " ", " ", "t", "w", "o", " ", "w",
    "o", "r", "d", "s", " ">>

RoundTripCell ==
  <<"t", "w", "o", " ", "w", "o", "r", "d", "s">>

Samples ==
  {MinimalSample, WhitespaceSample, EscapedQuoteSample, QuotedCommaSample,
   QuotedNewlineSample, CRLFSample, MalformedSample,
   UnmatchedQuoteSample, PaddedQuotedSample, WidthSample, RaggedSample,
   HeaderOnlySample, PipeSample, RoundTripSample}

BoundedStrings == UNION {[1..n -> Alphabet] : n \in 0..MaxLen}

Inputs == BoundedStrings \cup Samples

---------------------------------------------------------------------------
(* String helpers of the host language *)

\* the positions of s holding a character that trim keeps
Kept(s) == {k \in 1..Len(s) : s[k] \notin WhitespaceChars}

TrimStart(s) ==
  IF Kept(s) = {} THEN <<>>
  ELSE SubSeq(s, CHOOSE k \in Kept(s) : \A m \in Kept(s) : k <= m, Len(s))

TrimEnd(s) ==
  IF Kept(s) = {} THEN <<>>
  ELSE SubSeq(s, 1, CHOOSE k \in Kept(s) : \A m \in Kept(s) : m <= k)

\* Faulty variant: only the trailing whitespace is stripped.
TrimEndOnly(s) == TrimEnd(s)

\* String.prototype.trim
Trim(s) == TrimEnd(TrimStart(s))

\* csvString[k] for a 0-based k
CharAt(s, k) == IF k >= 0 /\ k < Len(s) THEN s[k + 1] ELSE Undefined

\* the pieces of s between the characters of `seps`, in order
SplitAt(s, seps) ==
  LET cuts == {k \in 1..Len(s) : s[k] \in seps}
      cut(n) == CHOOSE p \in cuts : Cardinality({q \in cuts : q < p}) = n - 1
      first(n) == IF n = 1 THEN 1 ELSE cut(n - 1) + 1
      last(n) == IF n = Cardinality(cuts) + 1 THEN Len(s) ELSE cut(n) - 1
  IN [n \in 1..(Cardinality(cuts) + 1) |-> SubSeq(s, first(n), last(n))]

\* String.prototype.split(sep) for a one-character separator
Split(s, sep) == SplitAt(s, {sep})

\* Array.prototype.join(sep) over strings
RECURSIVE Join(_, _)
Join(parts, sep) ==
  IF parts = <<>> THEN <<>>
  ELSE IF Len(parts) = 1 THEN parts[1]
  ELSE parts[1] \o sep \o Join(Tail(parts), sep)

\* String.prototype.repeat
Repeat(ch, n) == [k \in 1..n |-> ch]

\* String.prototype.padEnd(width) with the default space filler
PadEnd(cell, width) ==
  IF Len(cell) >= width THEN cell ELSE cell \o Repeat(SPACE, width - Len(cell))

\* Math.max over a non-empty set of numbers
MaxOf(S) == CHOOSE m \in S : \A n \in S : n <= m

Max2(a, b) == IF a >= b THEN a ELSE b

---------------------------------------------------------------------------
(* parseCSV *)

\* Faulty variant: the row is kept as soon as it has a cell.
SomeNonEmptyAnyCell(row) == Len(row) > 0

\* currentRow.some((cell) => cell.length > 0)
SomeNonEmpty(row) == \E k \in 1..Len(row) : Len(row[k]) > 0

ParserInit ==
  [rows |-> <<>>, currentRow |-> <<>>, currentCell |-> <<>>,
   insideQuotes |-> FALSE, i |-> 0]

\* if (insideQuotes && nextChar === '"')
IsEscapedQuote(st, nextChar) == st.insideQuotes /\ nextChar = QUOTE

\* Faulty variant: the escaped pair advances one position only.
EscapedQuoteAdvanceOne(st) ==
  [st EXCEPT !.currentCell = Append(@, QUOTE), !.i = @ + 1]

\* Escaped quote inside quoted field
EscapedQuote(st) ==
  [st EXCEPT !.currentCell = Append(@, QUOTE), !.i = @ + 2]

\* Faulty variant: the toggling quote is copied into the cell.
ToggleQuoteKept(st) ==
  [st EXCEPT !.insideQuotes = ~@, !.currentCell = Append(@, QUOTE),
             !.i = @ + 1]

\* Toggle quote state
ToggleQuote(st) ==
  [st EXCEPT !.insideQuotes = ~@, !.i = @ + 1]

\* End of cell
EndCell(st) ==
  [st EXCEPT !.currentRow = Append(@, Trim(st.currentCell)),
             !.currentCell = <<>>,
             !.i = @ + 1]

\* End of row: push the trimmed cell, keep the row if some cell is non-empty,
\* reset both buffers and skip `advance` characters.
EndRow(st, advance) ==
  LET row == Append(st.currentRow, Trim(st.currentCell))
  IN [st EXCEPT !.rows = IF SomeNonEmpty(row) THEN Append(@, row) ELSE @,
                !.currentRow = <<>>,
                !.currentCell = <<>>,
                !.i = @ + advance]

\* Faulty variant: every carriage-return is taken for the start of a CRLF.
IsCRLFNoLookahead(st, char, nextChar) == char = CR /\ ~st.insideQuotes

\* else if (char === '\r' && nextChar === '\n' && !insideQuotes)
IsCRLF(st, char, nextChar) == char = CR /\ nextChar = LF /\ ~st.insideQuotes

\* Faulty variant: the inside-quoted flag is not consulted.
IsLoneCRAnywhere(st, char) == char = CR

\* Faulty variant: a lone carriage-return is no line terminator.
IsLoneCRUnsupported(st, char) == FALSE

\* else if (char === '\r' && !insideQuotes)
IsLoneCR(st, char) == char = CR /\ ~st.insideQuotes

\* Faulty variant: spaces are not copied into the cell.
AppendCharSkipSpace(st, char) ==
  IF char = SPACE THEN [st EXCEPT !.i = @ + 1]
  ELSE [st EXCEPT !.currentCell = Append(@, char), !.i = @ + 1]

\* currentCell += char
AppendChar(st, char) ==
  [st EXCEPT !.currentCell = Append(@, char), !.i = @ + 1]

\* One iteration of the while loop
ParseStep(st, csvString) ==
  LET char == CharAt(csvString, st.i)
      nextChar == CharAt(csvString, st.i + 1)
  IN IF char = QUOTE
       THEN IF IsEscapedQuote(st, nextChar) THEN EscapedQuote(st)
            ELSE ToggleQuote(st)
     ELSE IF char = COMMA /\ ~st.insideQuotes THEN EndCell(st)
     ELSE IF char = LF /\ ~st.insideQuotes THEN EndRow(st, 1)
     ELSE IF IsCRLF(st, char, nextChar) THEN EndRow(st, 2)
     ELSE IF IsLoneCR(st, char) THEN EndRow(st, 1)
     ELSE AppendChar(st, char)

\* Faulty variant: only the cell buffer is consulted.
NeedsFinalizeCellOnly(st) == Len(st.currentCell) > 0

\* Faulty variant: nothing is emitted while a quoted field is still open.
NeedsFinalizeClosedQuotes(st) ==
  ~st.insideQuotes /\ (Len(st.currentCell) > 0 \/ Len(st.currentRow) > 0)

\* if (currentCell.length > 0 || currentRow.length > 0)
NeedsFinalize(st) == Len(st.currentCell) > 0 \/ Len(st.currentRow) > 0

\* Handle last cell and row
Finalize(st) ==
  IF NeedsFinalize(st)
  THEN LET row == Append(st.currentRow, Trim(st.currentCell))
       IN [st EXCEPT !.currentRow = row,
                     !.rows = IF SomeNonEmpty(row) THEN Append(@, row) ELSE @]
  ELSE st

\* up to n iterations of the while loop, stopping once i reaches the length
RECURSIVE Iterate(_, _, _)
Iterate(st, csvString, n) ==
  IF n = 0 \/ ~(st.i < Len(csvString)) THEN st
  ELSE IF n = 1 THEN ParseStep(st, csvString)
  ELSE Iterate(Iterate(st, csvString, n \div 2), csvString, n - (n \div 2))

\* while (i < csvString.length): no more than length iterations are needed,
\* each one advancing i
ParseLoop(st, csvString) == Iterate(st, csvString, Len(csvString))

parseCSV(csvString) == Finalize(ParseLoop(ParserInit, csvString)).rows

---------------------------------------------------------------------------
(* The fast path: isSimpleCSV, parseSimpleCSV *)

\* csvString.split('\n').length < 10000
SimpleLineLimit == 10000

\* !csvString.includes('"') && csvString.split('\n').length < 10000
isSimpleCSV(csvString) ==
  /\ ~(\E k \in 1..Len(csvString) : csvString[k] = QUOTE)
  /\ Len(Split(csvString, LF)) < SimpleLineLimit

\* split(/\r?\n/): cut at every line feed, and a carriage return right
\* before the line feed belongs to the separator
SplitLines(s) ==
  LET pieces == Split(s, LF)
  IN [n \in 1..Len(pieces) |->
        IF n < Len(pieces) /\ Len(pieces[n]) > 0
           /\ pieces[n][Len(pieces[n])] = CR
        THEN SubSeq(pieces[n], 1, Len(pieces[n]) - 1)
        ELSE pieces[n]]

\* csvString.trim().split(/\r?\n/), then line.split(',') with every cell
\* trimmed
parseSimpleCSV(csvString) ==
  LET lines == SplitLines(Trim(csvString))
  IN [n \in 1..Len(lines) |->
        LET cells == Split(lines[n], COMMA)
        IN [c \in 1..Len(cells) |-> Trim(cells[c])]]

---------------------------------------------------------------------------
(* convertToMarkdownTable *)

\* Minimum width for "---"
MinColumnWidth == 3

\* Math.max(...rows.map((row) => row.length))
ColumnCount(table) == MaxOf({Len(table[r]) : r \in 1..Len(table)})

\* Faulty variant: a short row is filled up with one-space cells.
NormalizeRowPadSpace(row, columnCount) ==
  IF Len(row) >= columnCount THEN row
  ELSE row \o [k \in 1..(columnCount - Len(row)) |-> <<SPACE>>]

\* Faulty variant: a short row receives a single empty cell.
NormalizeRowOnce(row, columnCount) ==
  IF Len(row) >= columnCount THEN row ELSE Append(row, <<>>)

\* while (normalizedRow.length < columnCount) normalizedRow.push('')
NormalizeRow(row, columnCount) ==
  IF Len(row) >= columnCount THEN row
  ELSE row \o [k \in 1..(columnCount - Len(row)) |-> <<>>]

NormalizedRows(table) ==
  [r \in 1..Len(table) |-> NormalizeRow(table[r], ColumnCount(table))]

\* Faulty variant: the widths are not clamped to the minimum.
ColumnWidthsNoFloor(table) ==
  LET normalizedRows == NormalizedRows(table)
  IN [c \in 1..ColumnCount(table) |->
        MaxOf({0} \cup {Len(normalizedRows[r][c]) :
                          r \in {q \in 1..Len(table) :
                                   c <= Len(normalizedRows[q])}})]

\* Faulty variant: the widths are taken from the rows as given, where a
\* missing cell reads as the 9 characters of "undefined".
ColumnWidthsRawRows(table) ==
  [c \in 1..ColumnCount(table) |->
     Max2(MaxOf({0} \cup {IF c <= Len(table[r]) THEN Len(table[r][c]) ELSE 9 :
                           r \in 1..Len(table)}),
          MinColumnWidth)]

\* Faulty variant: the widths are taken from the header row alone.
ColumnWidthsHeaderOnly(table) ==
  LET normalizedRows == NormalizedRows(table)
  IN [c \in 1..ColumnCount(table) |->
        Max2(Len(normalizedRows[1][c]), MinColumnWidth)]

\* widths start at 0, grow to the longest cell of each row's cells
\* (row.forEach), then are clamped to 3
ColumnWidths(table) ==
  LET normalizedRows == NormalizedRows(table)
  IN [c \in 1..ColumnCount(table) |->
        Max2(MaxOf({0} \cup {Len(normalizedRows[r][c]) :
                               r \in {q \in 1..Len(table) :
                                        c <= Len(normalizedRows[q])}}),
             MinColumnWidth)]

\* `| ${cells.join(' | ')} |`
Framed(cells) ==
  <<PIPE, SPACE>> \o Join(cells, <<SPACE, PIPE, SPACE>>) \o <<SPACE, PIPE>>

FormatRow(row, columnWidths) ==
  Framed([c \in 1..Len(row) |-> PadEnd(row[c], columnWidths[c])])

SeparatorRow(columnWidths) ==
  Framed([c \in 1..Len(columnWidths) |-> Repeat(DASH, columnWidths[c])])

\* Faulty variant: the separator row is emitted only ahead of data rows.
MarkdownRowsSeparatorWithData(table) ==
  LET normalizedRows == NormalizedRows(table)
      columnWidths == ColumnWidths(table)
  IN <<FormatRow(normalizedRows[1], columnWidths)>>
     \o (IF Len(table) > 1 THEN <<SeparatorRow(columnWidths)>> ELSE <<>>)
     \o [r \in 1..(Len(table) - 1) |->
           FormatRow(normalizedRows[r + 1], columnWidths)]

\* header row, separator row, data rows
MarkdownRows(table) ==
  LET normalizedRows == NormalizedRows(table)
      columnWidths == ColumnWidths(table)
  IN <<FormatRow(normalizedRows[1], columnWidths), SeparatorRow(columnWidths)>>
     \o [r \in 1..(Len(table) - 1) |->
           FormatRow(normalizedRows[r + 1], columnWidths)]

convertToMarkdownTable(table) ==
  IF Len(table) = 0 THEN <<>> ELSE Join(MarkdownRows(table), <<LF>>)

csvToMarkdown(csvString) == convertToMarkdownTable(parseCSV(csvString))

---------------------------------------------------------------------------
(* convertCSVToMarkdown *)

EmptyInputMessage == "CSV input is empty or contains only whitespace"
EmptyOutputMessage == "Failed to generate markdown table - output is empty"

\* slice(0, 5)
PreviewLimit == 5

\* Faulty variant: the whitespace test is left out.
InputRejectedEmptyOnly(input) == Len(input) = 0

\* if (!csvinput || !csvinput.trim())
InputRejected(input) == Len(input) = 0 \/ Len(Trim(input)) = 0

\* Faulty variant: only a missing result is rejected.
OutputRejectedMissingOnly(table) == FALSE

\* if (!markdownTable || markdownTable.trim().length === 0)
OutputRejected(table) == Len(table) = 0 \/ Len(Trim(table)) = 0

\* console.log(`Markdown table Created:\n${markdownTable}`)
StdoutText(table) == <<"Markdown table Created:", LF>> \o table

\* Faulty variant: the printed text is handed to the host.
OutputValuePrinted(table) == StdoutText(table)

\* core.setOutput('markdown-table', markdownTable)
OutputValue(table) == table

\* the first PreviewLimit lines, and '...' when lines were left out
PreviewText(table) ==
  LET lines == Split(table, LF)
      previewLines ==
        IF Len(lines) > PreviewLimit
        THEN Append(SubSeq(lines, 1, PreviewLimit), <<"...">>)
        ELSE lines
  IN <<"Markdown preview:", LF>> \o Join(previewLines, <<LF>>)

PState ==
  [rows |-> rows, currentRow |-> currentRow, currentCell |-> currentCell,
   insideQuotes |-> insideQuotes, i |-> i]

SetParser(st) ==
  /\ rows' = st.rows
  /\ currentRow' = st.currentRow
  /\ currentCell' = st.currentCell
  /\ insideQuotes' = st.insideQuotes
  /\ i' = st.i

Init ==
  /\ hostInput \in {[present |-> FALSE, value |-> <<>>]}
                   \cup {[present |-> TRUE, value |-> v] : v \in Inputs}
  /\ csvinput = <<>>
  /\ pc = "getInput"
  /\ rows = <<>>
  /\ currentRow = <<>>
  /\ currentCell = <<>>
  /\ insideQuotes = FALSE
  /\ i = 0
  /\ markdownTable = <<>>
  /\ output = [set |-> FALSE, value |-> <<>>]
  /\ failed = [set |-> FALSE, message |-> ""]
  /\ stdout = [printed |-> FALSE, text |-> <<>>]
  /\ infoLog = <<>>
  /\ debugLog = <<>>
  /\ errorLog = <<>>
  /\ error = ""
  /\ invoked = {}
  /\ paddingCache = <<>>
  /\ padCall = [called |-> FALSE, str |-> <<>>, width |-> 0, result |-> <<>>]

\* const csvinput = core.getInput('csvinput'): '' when the input is absent
GetInput ==
  /\ pc = "getInput"
  /\ csvinput' = IF hostInput.present THEN hostInput.value ELSE <<>>
  /\ pc' = "validateInput"
  /\ UNCHANGED <<cacheVars, hostInput, parserVars, markdownTable, hostVars,
                 error, invoked>>

\* Early validation: throw before any parsing work
ValidateInput ==
  /\ pc = "validateInput"
  /\ IF InputRejected(csvinput)
     THEN error' = EmptyInputMessage /\ pc' = "catch"
     ELSE error' = error /\ pc' = "logInput"
  /\ UNCHANGED <<cacheVars, hostInput, csvinput, parserVars, markdownTable,
                 hostVars, invoked>>

\* core.info(`Processing CSV: ${inputSize} characters, ${lineCount} lines`)
LogInput ==
  /\ pc = "logInput"
  /\ infoLog' = Append(infoLog,
                       [msg |-> "Processing CSV",
                        inputSize |-> Len(csvinput),
                        lineCount |-> Len(Split(csvinput, LF))])
  /\ pc' = "parse"
  /\ UNCHANGED <<cacheVars, hostInput, csvinput, parserVars, markdownTable,
                 output, failed, stdout, debugLog, errorLog, error, invoked>>

\* Faulty variant: the rows of the previous call are kept.
ParseBeginKeepRows ==
  /\ pc = "parse"
  /\ SetParser([ParserInit EXCEPT !.rows = rows])
  /\ invoked' = invoked \cup {"parseCSV"}
  /\ pc' = "scan"
  /\ UNCHANGED <<cacheVars, hostInput, csvinput, markdownTable, hostVars,
                 error>>

\* csvToMarkdown calls parseCSV: the locals before the loop
ParseBegin ==
  /\ pc = "parse"
  /\ SetParser(ParserInit)
  /\ invoked' = invoked \cup {"parseCSV"}
  /\ pc' = "scan"
  /\ UNCHANGED <<cacheVars, hostInput, csvinput, markdownTable, hostVars,
                 error>>

\* while (i < csvString.length): one iteration
ScanStep ==
  /\ pc = "scan"
  /\ i < Len(csvinput)
  /\ SetParser(ParseStep(PState, csvinput))
  /\ pc' = "scan"
  /\ UNCHANGED <<cacheVars, hostInput, csvinput, markdownTable, hostVars,
                 error, invoked>>

\* the loop ends; handle last cell and row; return rows
ParseReturn ==
  /\ pc = "scan"
  /\ ~(i < Len(csvinput))
  /\ SetParser(Finalize(PState))
  /\ pc' = "format"
  /\ UNCHANGED <<cacheVars, hostInput, csvinput, markdownTable, hostVars,
                 error, invoked>>

\* return convertToMarkdownTable(rows)
Format ==
  /\ pc = "format"
  /\ markdownTable' = convertToMarkdownTable(rows)
  /\ invoked' = invoked \cup {"convertToMarkdownTable"}
  /\ pc' = "validateOutput"
  /\ UNCHANGED <<cacheVars, hostInput, csvinput, parserVars, hostVars, error>>

\* Validate output
ValidateOutput ==
  /\ pc = "validateOutput"
  /\ IF OutputRejected(markdownTable)
     THEN error' = EmptyOutputMessage /\ pc' = "catch"
     ELSE error' = error /\ pc' = "logMetrics"
  /\ UNCHANGED <<cacheVars, hostInput, csvinput, parserVars, markdownTable,
                 hostVars, invoked>>

\* Log performance metrics: the duration is whatever the clock measured
LogMetrics ==
  /\ pc = "logMetrics"
  /\ \E processingTimeMs \in 0..MaxDuration :
       infoLog' = infoLog \o
         <<[msg |-> "Conversion completed", ms |-> processingTimeMs],
           [msg |-> "Output size", characters |-> Len(markdownTable)]>>
  /\ pc' = "print"
  /\ UNCHANGED <<cacheVars, hostInput, csvinput, parserVars, markdownTable,
                 output, failed, stdout, debugLog, errorLog, error, invoked>>

\* Output the markdown table to stdout
PrintTable ==
  /\ pc = "print"
  /\ stdout' = [printed |-> TRUE, text |-> StdoutText(markdownTable)]
  /\ pc' = "setOutput"
  /\ UNCHANGED <<cacheVars, hostInput, csvinput, parserVars, markdownTable,
                 output, failed, infoLog, debugLog, errorLog, error, invoked>>

\* Set output
SetOutput ==
  /\ pc = "setOutput"
  /\ output' = [set |-> TRUE, value |-> OutputValue(markdownTable)]
  /\ pc' = "preview"
  /\ UNCHANGED <<cacheVars, hostInput, csvinput, parserVars, markdownTable,
                 failed, stdout, infoLog, debugLog, errorLog, error, invoked>>

\* core.debug(`Markdown preview:\n${previewLines.join('\n')}`)
Preview ==
  /\ pc = "preview"
  /\ debugLog' = Append(debugLog, PreviewText(markdownTable))
  /\ pc' = "done"
  /\ UNCHANGED <<cacheVars, hostInput, csvinput, parserVars, markdownTable,
                 output, failed, stdout, infoLog, errorLog, error, invoked>>

\* catch (error): core.error, core.debug of the stack, core.setFailed
Catch ==
  /\ pc = "catch"
  /\ errorLog' = Append(errorLog, <<"CSV to Markdown conversion failed: ", error>>)
  /\ debugLog' = Append(debugLog, <<"Error stack: ", error>>)
  /\ failed' = [set |-> TRUE, message |-> error]
  /\ pc' = "done"
  /\ UNCHANGED <<cacheVars, hostInput, csvinput, parserVars, markdownTable,
                 output, stdout, infoLog, error, invoked>>

Next ==
  \/ GetInput
  \/ ValidateInput
  \/ LogInput
  \/ ParseBegin
  \/ ScanStep
  \/ ParseReturn
  \/ Format
  \/ ValidateOutput
  \/ LogMetrics
  \/ PrintTable
  \/ SetOutput
  \/ Preview
  \/ Catch

Spec == Init /\ [][Next]_vars

---------------------------------------------------------------------------
(* A sequence of conversions *)

\* how many conversions one sequence holds
MaxRuns == 3

\* inputs of the sequence: rejected; two rows; a quote left open at the end
RunInputs ==
  {<<SPACE>>, <<"a", COMMA, LF, "a">>, <<QUOTE, "a", COMMA>>}

SessionInit == Init /\ hostInput.present /\ hostInput.value \in RunInputs

\* convertCSVToMarkdown() once more, on another input: whatever the
\* previous conversion left behind is still there
NextConversion ==
  /\ pc = "done"
  /\ Len(debugLog) < MaxRuns
  /\ \E v \in RunInputs : hostInput' = [present |-> TRUE, value |-> v]
  /\ pc' = "getInput"
  /\ UNCHANGED <<cacheVars, csvinput, parserVars, markdownTable, hostVars,
                 error, invoked>>

SessionNext == Next \/ NextConversion

SessionSpec == SessionInit /\ [][SessionNext]_vars

---------------------------------------------------------------------------
(* The memoized padding helper: paddingCache, getPaddedString *)

\* longest str and largest width handed to getPaddedString
MaxPadLen == 1
MaxPadWidth == 2

PadStrings == UNION {[1..n -> {"a", "b"}] : n \in 0..MaxPadLen}

\* Faulty variant: the key leaves out the length of str.
CacheKeyWidthOnly(str, width) == <<0, width>>

\* const cacheKey = `${str.length}:${width}`
CacheKey(str, width) == <<Len(str), width>>

\* ' '.repeat(Math.max(0, width - str.length))
Padding(str, width) == Repeat(SPACE, Max2(0, width - Len(str)))

PadCalled(str, width, result) ==
  [called |-> TRUE, str |-> str, width |-> width, result |-> result]

CacheInit == Init /\ ~hostInput.present

\* one call getPaddedString(str, width), with any arguments
GetPaddedString ==
  /\ \E str \in PadStrings, width \in 0..MaxPadWidth :
       LET cacheKey == CacheKey(str, width)
       IN IF cacheKey \in DOMAIN paddingCache
          THEN /\ padCall' =
                    PadCalled(str, width, str \o paddingCache[cacheKey])
               /\ paddingCache' = paddingCache
          ELSE /\ paddingCache' =
                    paddingCache @@ (cacheKey :> Padding(str, width))
               /\ padCall' =
                    PadCalled(str, width, str \o Padding(str, width))
  /\ UNCHANGED <<hostInput, csvinput, pc, parserVars, markdownTable,
                 hostVars, error, invoked>>

CacheNext == GetPaddedString

CacheSpec == CacheInit /\ [][CacheNext]_vars

---------------------------------------------------------------------------
(* Vocabulary of the properties *)

IsBlankString(s) == \A k \in 1..Len(s) : s[k] \in WhitespaceChars

HasChar(s, chars) == \E k \in 1..Len(s) : s[k] \in chars

\* some character that is neither a comma, a double-quote nor whitespace
HasContentChar(s) ==
  \E k \in 1..Len(s) : s[k] \notin (WhitespaceChars \cup {COMMA, QUOTE})

LineCount(s) == Len(Split(s, LF))

AfterFormat == pc \in {"validateOutput", "logMetrics", "print", "setOutput",
                       "preview"}
               \/ (pc \in {"catch", "done"} /\ "convertToMarkdownTable" \in invoked)

ScanIteration == pc = "scan" /\ pc' = "scan"
ParserReturns == pc = "scan" /\ pc' = "format"

---------------------------------------------------------------------------
(* Entry point: input and output validation *)

\* C1: an input that is absent, empty or made only of whitespace makes the
\* entry point signal failure (setFailed with the input-validation message);
\* neither parseCSV nor convertToMarkdownTable is ever invoked, nothing is
\* printed and the 'markdown-table' output is never set.
C1_BlankInputRejected ==
  (~hostInput.present \/ IsBlankString(hostInput.value)) =>
     /\ invoked = {}
     /\ ~output.set
     /\ ~stdout.printed
     /\ pc \in {"getInput", "validateInput", "catch", "done"}
     /\ pc = "done" => failed.set /\ failed.message = EmptyInputMessage

C1_Witness ==
  /\ pc = "done"
  /\ hostInput.present
  /\ hostInput.value = WhitespaceSample
  /\ failed.set
  /\ invoked = {}

\* C2 as stated: for every input that passed input validation the formatted
\* result is non-blank and has at least a header line and a separator line,
\* so the output-validation failure never happens.
C2_OutputNeverEmpty ==
  AfterFormat =>
     /\ ~IsBlankString(markdownTable)
     /\ LineCount(markdownTable) >= 2
     /\ error # EmptyOutputMessage

\* C2 amended: the formatted result is non-blank with at least a header and
\* a separator line exactly when the parsed Table has a row, which every
\* validated input holding a character other than comma, double-quote and
\* whitespace guarantees; a validated input whose cells all trim to empty
\* parses to the empty Table, formats to the empty string and ends in the
\* output-validation failure.
C2_OutputEmptyOnlyForEmptyTable ==
  AfterFormat =>
     /\ HasContentChar(csvinput) => Len(rows) >= 1
     /\ Len(rows) >= 1 =>
          /\ ~IsBlankString(markdownTable)
          /\ LineCount(markdownTable) >= 2
          /\ error # EmptyOutputMessage
     /\ Len(rows) = 0 =>
          /\ markdownTable = <<>>
          /\ pc \in {"catch", "done"} => error = EmptyOutputMessage

C2_Witness ==
  /\ pc = "done"
  /\ output.set
  /\ HasContentChar(csvinput)
  /\ LineCount(output.value) >= 2

\* C3: when the formatted result of a validated input is empty or blank the
\* run ends failed with the output-validation message and without the
\* output set; no run has both the output set and the failure signalled,
\* and every finished run has exactly one of the two.
C3_ExactlyOneOutcome ==
  /\ ~(output.set /\ failed.set)
  /\ pc = "done" => (output.set # failed.set)
  /\ (pc = "done" /\ "convertToMarkdownTable" \in invoked
        /\ IsBlankString(markdownTable)) =>
        /\ failed.set
        /\ failed.message = EmptyOutputMessage
        /\ ~output.set

C3_Witness ==
  /\ pc = "done"
  /\ "convertToMarkdownTable" \in invoked
  /\ markdownTable = <<>>
  /\ failed.set
  /\ failed.message = EmptyOutputMessage

\* C4: on a successful run the value handed to the host as 'markdown-table'
\* is exactly convertToMarkdownTable(parseCSV(csvinput)) and the printed
\* text is that value after the banner line; the diagnostics leave the
\* value untouched.
C4_OutputIsConversion ==
  /\ output.set =>
       output.value = convertToMarkdownTable(parseCSV(hostInput.value))
  /\ stdout.printed =>
       stdout.text = <<"Markdown table Created:", LF>>
                       \o convertToMarkdownTable(parseCSV(hostInput.value))

C4_Witness ==
  /\ pc = "done"
  /\ output.set
  /\ stdout.printed
  /\ Len(infoLog) = 3
  /\ Len(debugLog) = 1
  /\ Len(rows) >= 2

---------------------------------------------------------------------------
(* Parser: the scan *)

char == CharAt(csvinput, i)
nextChar == CharAt(csvinput, i + 1)

QuoteCount(s) == Cardinality({k \in 1..Len(s) : s[k] = QUOTE})

\* C5: parseCSV never fails and terminates on every input, ragged rows and
\* an odd number of double-quotes included: each iteration advances the
\* index by 1 or 2, the index never exceeds the input length, the loop is
\* left exactly when the index equals the length, a next step (an iteration
\* or the return) is always possible and no error is raised while parsing.
C5_ScanTerminates ==
  /\ [](pc = "scan" =>
          /\ i <= Len(csvinput)
          /\ error = ""
          /\ ENABLED (ScanStep \/ ParseReturn))
  /\ [][/\ ScanIteration => (i' - i) \in {1, 2} /\ i' <= Len(csvinput)
        /\ ParserReturns => i = Len(csvinput) /\ error' = ""
        /\ pc = "scan" => pc' \in {"scan", "format"}]_vars

C5_Witness ==
  /\ pc = "format"
  /\ i = Len(csvinput)
  /\ QuoteCount(csvinput) % 2 = 1
  /\ Len(rows) >= 2
  /\ Len(rows[1]) # Len(rows[2])

\* C6: a double-quote seen inside a quoted field and followed by another
\* double-quote appends one double-quote to the cell buffer, advances two
\* positions and keeps the inside-quoted flag; any other double-quote
\* toggles the flag, advances one position and leaves the buffer alone.
\* The sample with doubled quotes parses to the cell with single quotes.
C6_QuoteRule ==
  /\ [][(ScanIteration /\ char = QUOTE) =>
          /\ currentRow' = currentRow
          /\ rows' = rows
          /\ IF insideQuotes /\ nextChar = QUOTE
             THEN /\ currentCell' = currentCell \o <<QUOTE>>
                  /\ i' = i + 2
                  /\ insideQuotes' = insideQuotes
             ELSE /\ currentCell' = currentCell
                  /\ i' = i + 1
                  /\ insideQuotes' = ~insideQuotes]_vars
  /\ []((pc = "format" /\ csvinput = EscapedQuoteSample) =>
          /\ Len(rows) = 2
          /\ Len(rows[2]) = 2
          /\ rows[2][2] = EscapedQuoteCell)

C6_Witness ==
  /\ pc = "format"
  /\ csvinput = EscapedQuoteSample
  /\ Len(rows) = 2
  /\ rows[2][2] = EscapedQuoteCell

\* C7: while the inside-quoted flag is set, a comma, line-feed or
\* carriage-return is appended to the cell buffer and closes nothing: the
\* row buffer and the result are unchanged by that step. The row buffer or
\* the result change only on a comma or line terminator seen with the flag
\* clear, or at end of input.
C7_QuotedSeparatorsLiteral ==
  [][/\ (ScanIteration /\ insideQuotes /\ char \in {COMMA, LF, CR}) =>
          /\ currentCell' = currentCell \o <<char>>
          /\ currentRow' = currentRow
          /\ rows' = rows
          /\ insideQuotes'
          /\ i' = i + 1
     /\ (currentRow' # currentRow \/ rows' # rows) =>
          \/ ScanIteration /\ ~insideQuotes /\ char \in {COMMA, LF, CR}
          \/ ParserReturns]_vars

C7_Witness ==
  /\ pc = "scan"
  /\ insideQuotes
  /\ HasChar(currentCell, {COMMA})
  /\ HasChar(currentCell, {LF, CR})
  /\ rows = <<>>
  /\ currentRow = <<>>

---------------------------------------------------------------------------
(* Parser: rows *)

\* every LF of s replaced by the string `by`
ReplaceLF(s, by) == Join(Split(s, LF), by)

\* the physical lines of s: split at every LF and every CR
Lines(s) == SplitAt(s, {LF, CR})

\* a line made only of commas and whitespace (the empty line included)
IsSeparatorOnlyLine(line) ==
  \A k \in 1..Len(line) : line[k] \in (WhitespaceChars \cup {COMMA})

ContentLineCount(s) ==
  Cardinality({n \in 1..Len(Lines(s)) : ~IsSeparatorOnlyLine(Lines(s)[n])})

\* C8: outside quoted fields LF, CRLF and a lone CR end a row alike: for a
\* quote-free input whose only line breaks are LF, replacing every LF by
\* CRLF, or by a lone CR, parses to the same Table; a CRLF pair is consumed
\* in one step that closes at most one row.
C8_LineEndingsEquivalent ==
  /\ []((pc = "format" /\ ~HasChar(csvinput, {QUOTE, CR})) =>
          /\ parseCSV(ReplaceLF(csvinput, <<CR, LF>>)) = rows
          /\ parseCSV(ReplaceLF(csvinput, <<CR>>)) = rows)
  /\ [][(ScanIteration /\ ~insideQuotes /\ char = CR /\ nextChar = LF) =>
          /\ i' = i + 2
          /\ currentRow' = <<>>
          /\ currentCell' = <<>>
          /\ Len(rows') <= Len(rows) + 1]_vars

C8_Witness ==
  /\ pc = "format"
  /\ ~HasChar(csvinput, {QUOTE, CR})
  /\ HasChar(csvinput, {LF})
  /\ Len(rows) >= 2
  /\ parseCSV(ReplaceLF(csvinput, <<CR, LF>>)) = rows

\* C9: a line made only of commas and whitespace never becomes a row of the
\* Table nor a line of the output: every row of the result, after every
\* scan step and at return, has a cell that is non-empty after trimming;
\* for a quote-free input the Table has one row per line that holds some
\* other character, and the output one line more than that.
C9_DroppedRowLaw ==
  /\ \A r \in 1..Len(rows) :
        \E c \in 1..Len(rows[r]) : Trim(rows[r][c]) # <<>>
  /\ (pc = "format" /\ ~HasChar(csvinput, {QUOTE})) =>
        Len(rows) = ContentLineCount(csvinput)
  /\ (output.set /\ ~HasChar(csvinput, {QUOTE})) =>
        LineCount(output.value) = ContentLineCount(csvinput) + 1

C9_Witness ==
  /\ pc = "done"
  /\ output.set
  /\ ~HasChar(csvinput, {QUOTE})
  /\ \E n \in 1..Len(Lines(csvinput)) :
        /\ HasChar(Lines(csvinput)[n], {COMMA})
        /\ IsSeparatorOnlyLine(Lines(csvinput)[n])
  /\ Len(rows) = 1
  /\ LineCount(output.value) = 2

\* C10: a final row without a line terminator is kept: parsing X gives the
\* same Table as parsing X followed by one line-feed; at end of input the
\* last cell is closed and the last row appended exactly when the cell
\* buffer or the row buffer is non-empty, and the row is kept only if one
\* of its cells is non-empty.
C10_TrailingRowKept ==
  /\ [](pc = "format" => rows = parseCSV(csvinput \o <<LF>>))
  /\ [][ParserReturns =>
          IF currentCell # <<>> \/ currentRow # <<>>
          THEN /\ currentRow' = Append(currentRow, Trim(currentCell))
               /\ rows' = IF \E c \in 1..Len(currentRow') : currentRow'[c] # <<>>
                          THEN Append(rows, currentRow')
                          ELSE rows
          ELSE /\ currentRow' = currentRow
               /\ rows' = rows]_vars

C10_Witness ==
  /\ pc = "format"
  /\ csvinput = MinimalSample
  /\ Len(rows) = 2
  /\ rows[2] = <<<<"V", "a", "l", "u", "e">>>>
  /\ rows = parseCSV(csvinput \o <<LF>>)

---------------------------------------------------------------------------
(* Parser: cells *)

\* cell is buffer without its leading and trailing whitespace: the buffer
\* is a run of whitespace, the cell, and a run of whitespace, and the cell
\* neither starts nor ends with whitespace
IsStripped(cell, buffer) ==
  /\ cell # <<>> => /\ cell[1] \notin WhitespaceChars
                    /\ cell[Len(cell)] \notin WhitespaceChars
  /\ \E lead \in 0..Len(buffer) :
        /\ lead + Len(cell) <= Len(buffer)
        /\ SubSeq(buffer, lead + 1, lead + Len(cell)) = cell
        /\ IsBlankString(SubSeq(buffer, 1, lead))
        /\ IsBlankString(SubSeq(buffer, lead + Len(cell) + 1, Len(buffer)))

\* C11: every cell of every row of the Table, from a quoted or an unquoted
\* field, has no leading and no trailing whitespace; a cell is closed as
\* its buffer with only the edge whitespace removed, so whitespace inside
\* the content is kept (the quoted field " padded cell " gives the cell
\* padded cell).
C11_CellsTrimmed ==
  /\ [](\A r \in 1..Len(rows) : \A c \in 1..Len(rows[r]) :
           rows[r][c] # <<>> =>
              /\ rows[r][c][1] \notin WhitespaceChars
              /\ rows[r][c][Len(rows[r][c])] \notin WhitespaceChars)
  /\ [][/\ (pc = "scan" /\ Len(currentRow') = Len(currentRow) + 1) =>
             IsStripped(currentRow'[Len(currentRow')], currentCell)
        /\ (pc = "scan" /\ Len(rows') = Len(rows) + 1) =>
             LET row == rows'[Len(rows')]
             IN IsStripped(row[Len(row)], currentCell)]_vars
  /\ []((pc = "format" /\ csvinput = PaddedQuotedSample) =>
           rows = <<<<<<"N", "a", "m", "e">>>>, <<PaddedQuotedCell>>>>)

C11_Witness ==
  /\ pc = "format"
  /\ csvinput = PaddedQuotedSample
  /\ Len(rows) = 2
  /\ rows[2] = <<PaddedQuotedCell>>

---------------------------------------------------------------------------
(* Formatter *)

Formatted == pc = "validateOutput"

CountOf(s, ch) == Cardinality({k \in 1..Len(s) : s[k] = ch})

\* the longest row of a non-empty table, without Math.max
LongestRow(table) ==
  CHOOSE n \in {Len(table[r]) : r \in 1..Len(table)} :
     \A r \in 1..Len(table) : Len(table[r]) <= n

\* the length of cell c of row r, 0 where the row has no such cell
CellLength(table, r, c) == IF c <= Len(table[r]) THEN Len(table[r][c]) ELSE 0

\* C12 as stated: the formatter returns the empty string for a Table with no
\* row; for a Table with n >= 1 rows the output is exactly n + 1
\* newline-separated lines (header, separator, one line per further row),
\* joined by single newlines with no trailing newline; one row gives 2 lines.
C12_OneLinePerRow ==
  Formatted =>
     /\ Len(rows) = 0 => markdownTable = <<>>
     /\ Len(rows) >= 1 =>
          /\ LineCount(markdownTable) = Len(rows) + 1
          /\ markdownTable[Len(markdownTable)] # LF

\* C13 as stated: for a non-empty Table the output has as many columns as
\* the longest row has cells, and every formatted line (header, separator,
\* data) holds exactly columnCount + 1 pipe characters.
C13_PipesPerLine ==
  (Formatted /\ Len(rows) >= 1) =>
     /\ ColumnCount(rows) = LongestRow(rows)
     /\ Len(MarkdownRows(rows)) = Len(rows) + 1
     /\ \A n \in 1..Len(MarkdownRows(rows)) :
           CountOf(MarkdownRows(rows)[n], PIPE) = LongestRow(rows) + 1

\* the width the column must have: 3, or the longest cell if longer
ExpectedWidth(table, c) ==
  CHOOSE w \in 3..(3 + Len(csvinput)) :
     /\ \A r \in 1..Len(table) : CellLength(table, r, c) <= w
     /\ w = 3 \/ \E r \in 1..Len(table) : CellLength(table, r, c) = w

\* "| " ++ runs of dashes joined by " | " ++ " |", written out
RECURSIVE DashRuns(_)
DashRuns(widths) ==
  IF Len(widths) = 1 THEN [k \in 1..widths[1] |-> DASH]
  ELSE [k \in 1..widths[1] |-> DASH] \o <<SPACE, PIPE, SPACE>>
       \o DashRuns(Tail(widths))

\* C14: every column's width is max(3, longest cell of the column over the
\* normalized rows), and the separator line's run for the column is exactly
\* that many dashes, hence at least 3; for Name,Age / John,25 / Jane,30 the
\* widths are 4 and 3.
C14_WidthsAndSeparator ==
  /\ (Formatted /\ Len(rows) >= 1) =>
        /\ Len(ColumnWidths(rows)) = LongestRow(rows)
        /\ \A c \in 1..LongestRow(rows) :
              /\ ColumnWidths(rows)[c] = ExpectedWidth(rows, c)
              /\ ColumnWidths(rows)[c] >= 3
        /\ MarkdownRows(rows)[2] =
              <<PIPE, SPACE>>
              \o DashRuns([c \in 1..LongestRow(rows) |-> ExpectedWidth(rows, c)])
              \o <<SPACE, PIPE>>
        /\ ~HasChar(csvinput, {QUOTE}) =>
              Split(markdownTable, LF)[2] = MarkdownRows(rows)[2]
  /\ (Formatted /\ csvinput = WidthSample) =>
        /\ ColumnWidths(rows) = <<4, 3>>
        /\ Split(markdownTable, LF)[2] =
              <<"|", " ", "-", "-", "-", "-", " ", "|", " ", "-", "-", "-",
                " ", "|">>

C14_Witness ==
  /\ Formatted
  /\ csvinput = WidthSample
  /\ ColumnWidths(rows) = <<4, 3>>
  /\ Len(rows) = 3

\* C15: padding is idempotent: formatting the normalized form of the Table
\* (every row already right-padded with empty cells to columnCount) gives
\* the same column widths and the same output string as formatting the
\* Table itself.
C15_PaddingIdempotent ==
  Formatted =>
     /\ convertToMarkdownTable(NormalizedRows(rows)) = markdownTable
     /\ Len(rows) >= 1 =>
           /\ ColumnWidths(NormalizedRows(rows)) = ColumnWidths(rows)
           /\ NormalizedRows(NormalizedRows(rows)) = NormalizedRows(rows)
           /\ \A r \in 1..Len(rows) :
                 Len(NormalizedRows(rows)[r]) = LongestRow(rows)

\* a ragged Table, whose normalized form differs from it, has been formatted
C15_Witness ==
  /\ Formatted
  /\ Len(rows) >= 2
  /\ NormalizedRows(rows) # rows
  /\ convertToMarkdownTable(NormalizedRows(rows)) = markdownTable

---------------------------------------------------------------------------
(* Round trip of a cell value *)

\* v occurs in line as a run of consecutive characters
Contains(line, v) ==
  \E k \in 0..(Len(line) - Len(v)) : SubSeq(line, k + 1, k + Len(v)) = v

\* the input is a header cell, one line feed, and a value holding no comma,
\* double-quote or line terminator
IsHeaderAndValue(s) ==
  LET parts == Split(s, LF)
  IN /\ Len(parts) = 2
     /\ HasContentChar(parts[1])
     /\ ~HasChar(parts[1], {COMMA, QUOTE, CR})
     /\ ~HasChar(parts[2], {COMMA, QUOTE, LF, CR})

EmbeddedValue(s) == Split(s, LF)[2]

\* the output has a data line, and that line holds v verbatim
DataLineHolds(v) ==
  LET lines == Split(markdownTable, LF)
  IN Len(lines) = 3 /\ Contains(lines[3], v)

\* C16 as stated: any value free of commas, double-quotes and line
\* terminators, embedded as the single data cell under a header line,
\* reappears trimmed and verbatim in the data line of the output.
C16_RoundTripAnyValue ==
  (Formatted /\ IsHeaderAndValue(csvinput)) =>
     DataLineHolds(Trim(EmbeddedValue(csvinput)))

\* C16 amended: the same for values that hold at least one character that
\* is not whitespace; the parsed data row is the one trimmed value, and the
\* data line of the output holds it verbatim.
C16_RoundTripNonBlankValue ==
  /\ (Formatted /\ IsHeaderAndValue(csvinput)
        /\ ~IsBlankString(EmbeddedValue(csvinput))) =>
        /\ Len(rows) = 2
        /\ rows[2] = <<Trim(EmbeddedValue(csvinput))>>
        /\ DataLineHolds(Trim(EmbeddedValue(csvinput)))
  /\ (Formatted /\ csvinput = RoundTripSample) =>
        /\ IsHeaderAndValue(csvinput)
        /\ Trim(EmbeddedValue(csvinput)) = RoundTripCell
        /\ DataLineHolds(RoundTripCell)

\* a value with inner and outer spaces has made the round trip
C16_Witness ==
  /\ Formatted
  /\ csvinput = RoundTripSample
  /\ rows[2] = <<RoundTripCell>>
  /\ DataLineHolds(RoundTripCell)

---------------------------------------------------------------------------
(* Ragged rows *)

RaggedFormatted == Formatted /\ csvinput = RaggedSample

JohnRow == <<<<"J", "o", "h", "n">>, <<"2", "5">>>>

JaneRow ==
  <<<<"J", "a", "n", "e">>, <<"3", "0">>,
    <<"N", "e", "w", " ", "Y", "o", "r", "k">>,
    <<"E", "x", "t", "r", "a">>>>

\* C17 as stated: for Name,Age,City / John,25 / Jane,30,New York,Extra the
\* columnCount is 4, the row for John is padded with one trailing empty
\* cell, and the row for Jane keeps Extra as 4th value and is not padded.
C17_JohnPaddedByOne ==
  RaggedFormatted =>
     /\ ColumnCount(rows) = 4
     /\ rows[2] = JohnRow
     /\ NormalizedRows(rows)[2] = JohnRow \o <<<<>>>>
     /\ rows[3] = JaneRow
     /\ NormalizedRows(rows)[3] = JaneRow

\* C17 amended: the columnCount is 4, the row for John (2 cells) is padded
\* with two trailing empty cells up to the columnCount, and the row for
\* Jane keeps Extra as 4th value and is not padded.
C17_JohnPaddedToColumnCount ==
  RaggedFormatted =>
     /\ ColumnCount(rows) = 4
     /\ rows[2] = JohnRow
     /\ NormalizedRows(rows)[2] = JohnRow \o <<<<>>, <<>>>>
     /\ rows[3] = JaneRow
     /\ NormalizedRows(rows)[3] = JaneRow
     /\ Split(markdownTable, LF)[3] =
           FormatRow(JohnRow \o <<<<>>, <<>>>>, <<4, 3, 8, 5>>)
     /\ CountOf(Split(markdownTable, LF)[3], PIPE) = 5

C17_Witness ==
  /\ RaggedFormatted
  /\ Len(rows) = 3
  /\ Len(rows[2]) = 2
  /\ Len(NormalizedRows(rows)[2]) = 4
  /\ Len(rows[3]) = 4

---------------------------------------------------------------------------
(* Purity of a conversion *)

\* the conversions completed so far: each one ends with one debug entry
CompletedRuns == Len(debugLog)

\* C18: in any sequence of conversions the result of a conversion is the
\* function csvToMarkdown of its own input string, whatever ran before (so
\* two conversions of the same input return the same output), and nothing
\* a conversion wrote is read by a later one: the input is read anew, the
\* parser starts from its initial locals, and the Table and the output are
\* computed from this conversion's input only.
C18_ConversionIsPure ==
  /\ [](pc = "format" => rows = parseCSV(csvinput))
  /\ [](pc \in {"validateOutput", "logMetrics", "print", "setOutput",
                "preview"} => markdownTable = csvToMarkdown(csvinput))
  /\ [](pc = "preview" => output.value = csvToMarkdown(csvinput))
  /\ [][/\ pc = "getInput" => csvinput' = hostInput.value
        /\ pc = "parse" => PState' = ParserInit
        /\ pc = "format" => markdownTable' = convertToMarkdownTable(rows)]_vars

\* the third conversion has formatted its Table; the first one stopped
\* inside an open quote and the second one returned other rows
C18_Witness ==
  /\ CompletedRuns = 2
  /\ pc = "validateOutput"
  /\ csvinput = <<"a", COMMA, LF, "a">>
  /\ infoLog[1].inputSize = 3
  /\ markdownTable = csvToMarkdown(csvinput)

---------------------------------------------------------------------------
(* The padding cache *)

\* C19: after any sequence of getPaddedString calls with any arguments,
\* each call returns str right-padded with spaces to width (str itself
\* when it is already at least width long), exactly as padEnd does; every
\* cached padding is the one its key's length and width require.
C19_CacheEquivalentToPadEnd ==
  /\ padCall.called =>
        /\ padCall.result = PadEnd(padCall.str, padCall.width)
        /\ Len(padCall.str) >= padCall.width => padCall.result = padCall.str
        /\ CacheKey(padCall.str, padCall.width) \in DOMAIN paddingCache
  /\ \A key \in DOMAIN paddingCache :
        paddingCache[key] = Repeat(SPACE, Max2(0, key[2] - key[1]))

\* a call answered from an entry that a different string of the same
\* length put into the cache
C19_Witness ==
  /\ padCall.called
  /\ padCall.str = <<"b">>
  /\ padCall.width = 2
  /\ padCall.result = <<"b", SPACE>>
  /\ Cardinality(DOMAIN paddingCache) >= 2

---------------------------------------------------------------------------
(* The two parser variants *)

\* C20 as stated: for every input that isSimpleCSV selects for the fast
\* path (no double-quote, fewer than 10000 lines), parseSimpleCSV returns
\* exactly the Table that parseCSV returns.
C20_SimpleParserAgrees ==
  (pc = "format" /\ isSimpleCSV(csvinput)) =>
     parseSimpleCSV(csvinput) = rows

---------------------------------------------------------------------------
(* Parser: an unmatched double-quote *)

\* the input holds one double-quote, and it is left open at the end
OneOpenQuote == insideQuotes /\ QuoteCount(csvinput) = 1

QuoteIndex == CHOOSE k \in 1..Len(csvinput) : csvinput[k] = QUOTE

\* what the open field accumulated: the field's characters ahead of the
\* quote, then every character after the quote
OpenFieldText ==
  LET before == SplitAt(SubSeq(csvinput, 1, QuoteIndex - 1), {COMMA, LF, CR})
  IN before[Len(before)] \o SubSeq(csvinput, QuoteIndex + 1, Len(csvinput))

\* C21: an unmatched double-quote is tolerated. When the input ends with
\* the inside-quoted flag set, finalization still closes the accumulated
\* buffer, trimmed, as the last cell of the last row and keeps the row if
\* one of its cells is non-empty; everything after the unmatched quote,
\* commas and line breaks included, is part of that one cell; parsing
\* raises no failure, and the conversion succeeds whenever a row was kept.
C21_UnmatchedQuoteTolerated ==
  /\ [][(ParserReturns /\ insideQuotes) =>
          /\ error' = "" /\ pc' = "format" /\ insideQuotes'
          /\ (currentCell # <<>> \/ currentRow # <<>>) =>
                /\ currentRow' = Append(currentRow, Trim(currentCell))
                /\ rows' = IF \E c \in 1..Len(currentRow') :
                                  currentRow'[c] # <<>>
                           THEN Append(rows, currentRow')
                           ELSE rows
          /\ (currentCell = <<>> /\ currentRow = <<>>) => rows' = rows]_vars
  /\ []((pc = "scan" /\ i = Len(csvinput) /\ OneOpenQuote) =>
          currentCell = OpenFieldText)
  /\ []((pc = "format" /\ OneOpenQuote /\ Trim(OpenFieldText) # <<>>) =>
          /\ rows # <<>>
          /\ rows[Len(rows)][Len(rows[Len(rows)])] = Trim(OpenFieldText))
  /\ []((pc = "format" /\ csvinput = UnmatchedQuoteSample) =>
          /\ insideQuotes
          /\ Len(rows) = 2
          /\ rows[2] = <<<<"J", "o", "h", "n">>, <<"2", "5">>,
                         <<"E", "x", "t", "r", "a">>>>)
  /\ []((pc = "done" /\ insideQuotes /\ rows # <<>>) =>
          output.set /\ ~failed.set /\ error = "")

\* the parser has returned from an open quoted field whose cell holds a
\* comma and a line feed
C21_Witness ==
  /\ pc = "format"
  /\ OneOpenQuote
  /\ Len(rows) = 1
  /\ rows[1] = <<<<COMMA, LF, "a">>>>

---------------------------------------------------------------------------
(* Formatter: normalized rows *)

\* C22: for every non-empty Table, columnCount is the length of the
\* longest row and every normalized row has exactly columnCount cells: the
\* cells of the original row in order, followed by empty strings.
C22_NormalizationInvariant ==
  (Formatted /\ Len(rows) >= 1) =>
     /\ ColumnCount(rows) = LongestRow(rows)
     /\ Len(NormalizedRows(rows)) = Len(rows)
     /\ \A r \in 1..Len(rows) :
           /\ Len(NormalizedRows(rows)[r]) = LongestRow(rows)
           /\ \A c \in 1..LongestRow(rows) :
                 NormalizedRows(rows)[r][c] =
                    IF c <= Len(rows[r]) THEN rows[r][c] ELSE <<>>

\* a row two cells short of the longest row has been normalized
C22_Witness ==
  /\ RaggedFormatted
  /\ LongestRow(rows) = 4
  /\ Len(rows[2]) = 2
  /\ NormalizedRows(rows)[2][3] = <<>>
  /\ NormalizedRows(rows)[2][4] = <<>>
  /\ NormalizedRows(rows)[3] = rows[3]

---------------------------------------------------------------------------
(* Formatter: padding and alignment *)

\* the widths of columns 1..c added up
RECURSIVE WidthSum(_, _)
WidthSum(table, c) ==
  IF c = 0 THEN 0 ELSE ExpectedWidth(table, c) + WidthSum(table, c - 1)

\* the characters of a line ahead of the cell of column c: "| ", then the
\* earlier cells, each followed by " | "
CellOffset(table, c) == 2 + WidthSum(table, c - 1) + 3 * (c - 1)

\* the emitted line of row r: the separator line sits between rows 1 and 2
RowLine(table, r) == MarkdownRows(table)[IF r = 1 THEN 1 ELSE r + 1]

\* the text of cell c of row r, empty where the row has no such cell
CellText(table, r, c) == IF c <= Len(table[r]) THEN table[r][c] ELSE <<>>

\* C23: padding never truncates. In the header line and in every data
\* line each cell's text stands in full, followed by exactly
\* columnWidths[i] - length(cell) spaces, so a padded cell occupies exactly
\* columnWidths[i] characters, and no cell is longer than its column width.
C23_PaddingNeverTruncates ==
  (Formatted /\ Len(rows) >= 1) =>
     \A r \in 1..Len(rows) : \A c \in 1..LongestRow(rows) :
        LET cell == CellText(rows, r, c)
            width == ColumnWidths(rows)[c]
            from == CellOffset(rows, c)
            line == RowLine(rows, r)
        IN /\ Len(cell) <= width
           /\ width = ExpectedWidth(rows, c)
           /\ SubSeq(line, from + 1, from + Len(cell)) = cell
           /\ SubSeq(line, from + Len(cell) + 1, from + width)
                 = [k \in 1..(width - Len(cell)) |-> SPACE]
           /\ Len(PadEnd(cell, width)) = width
           /\ ~HasChar(csvinput, {QUOTE}) =>
                 Split(markdownTable, LF)[IF r = 1 THEN 1 ELSE r + 1] = line

\* the row John,25 of the ragged input stands in columns 4, 3, 8 and 5
\* characters wide: 25 is followed by one space, the empty cells by 8 and 5
C23_Witness ==
  /\ RaggedFormatted
  /\ ColumnWidths(rows) = <<4, 3, 8, 5>>
  /\ Split(markdownTable, LF)[3] =
        <<"|", " ", "J", "o", "h", "n", " ", "|", " ", "2", "5", " ", " ",
          "|", " ", " ", " ", " ", " ", " ", " ", " ", " ", " ", "|", " ",
          " ", " ", " ", " ", " ", " ", "|">>


NoLineBreakInCells ==
  \A r \in 1..Len(rows) : \A c \in 1..Len(rows[r]) :
     ~HasChar(rows[r][c], {LF, CR})

OutputLines == Split(markdownTable, LF)

PipePositions(line) == {k \in 1..Len(line) : line[k] = PIPE}

\* every line of the output is as long as the widths and the frame require
LinesSameLength ==
  /\ Len(OutputLines) = Len(rows) + 1
  /\ \A n \in 1..Len(OutputLines) :
        Len(OutputLines[n]) =
           WidthSum(rows, LongestRow(rows)) + 3 * LongestRow(rows) + 1

\* the column delimiters of every line: a pipe ahead of every cell and one
\* after the last cell
DelimitersAligned ==
  \A n \in 1..Len(OutputLines) :
     {1} \cup {CellOffset(rows, c) + ExpectedWidth(rows, c) + 2 :
                 c \in 1..LongestRow(rows)}
        \subseteq PipePositions(OutputLines[n])

\* C24 as stated: for every non-empty Table whose cells hold no line break,
\* header, separator and data lines all have the same length, the sum of
\* the column widths plus 3 * columnCount + 1, and the pipe characters of
\* every line fall at the same positions.
C24_LinesAligned ==
  (Formatted /\ Len(rows) >= 1 /\ NoLineBreakInCells) =>
     /\ LinesSameLength
     /\ DelimitersAligned
     /\ \A n \in 1..Len(OutputLines) :
           PipePositions(OutputLines[n]) = PipePositions(OutputLines[1])

---------------------------------------------------------------------------
(* Parser: double-quotes in cells *)

\* the double-quotes held by the cells of a row, and of a table
RowQuotes(row) == QuoteCount(Join(row, <<>>))
TableQuotes(table) ==
  QuoteCount(Join([r \in 1..Len(table) |-> Join(table[r], <<>>)], <<>>))

\* the double-quotes of the input consumed so far
ConsumedQuotes == QuoteCount(SubSeq(csvinput, 1, i))

\* the double-quotes that toggled the flag: those consumed that were not
\* part of an escaped pair, a pair taking two and storing one
Toggles(stored) == ConsumedQuotes - 2 * stored

HasDoubledQuote(s) ==
  \E k \in 1..(Len(s) - 1) : s[k] = QUOTE /\ s[k + 1] = QUOTE

\* C25: a double-quote enters the cell buffer by the escape rule only. A
\* scan step adds one double-quote to the buffer when it consumes an
\* escaped pair, and none otherwise (a step that closes the cell empties
\* the buffer), so the double-quotes stored are as many as the escaped
\* pairs consumed; a cell of the Table holds a double-quote only if the
\* input has a doubled quote after an opening quote.
C25_QuotesOnlyByEscape ==
  /\ [][ScanIteration =>
          IF char = QUOTE /\ insideQuotes /\ nextChar = QUOTE
          THEN /\ currentCell' = Append(currentCell, QUOTE)
               /\ RowQuotes(currentRow') = RowQuotes(currentRow)
               /\ TableQuotes(rows') = TableQuotes(rows)
          ELSE /\ QuoteCount(currentCell') \in {0, QuoteCount(currentCell)}
               /\ QuoteCount(currentCell') + RowQuotes(currentRow')
                     + TableQuotes(rows')
                  = QuoteCount(currentCell) + RowQuotes(currentRow)
                     + TableQuotes(rows)]_vars
  /\ [](pc = "scan" =>
          LET stored == QuoteCount(currentCell) + RowQuotes(currentRow)
                           + TableQuotes(rows)
          IN /\ Toggles(stored) >= 0
             /\ insideQuotes <=> (Toggles(stored) % 2 = 1))
  /\ [](pc = "format" =>
          /\ Toggles(TableQuotes(rows)) >= 0
          /\ insideQuotes <=> (Toggles(TableQuotes(rows)) % 2 = 1)
          /\ TableQuotes(rows) > 0 =>
                /\ HasDoubledQuote(csvinput)
                /\ QuoteCount(csvinput) >= 3)

\* an escaped pair has just put a double-quote into the buffer of an open
\* quoted field
C25_Witness ==
  /\ pc = "scan"
  /\ insideQuotes
  /\ currentCell = <<QUOTE, "a">>
  /\ ConsumedQuotes = 3

---------------------------------------------------------------------------
(* The header row *)

\* the first line of s that holds more than commas and whitespace
FirstContentLine(s) ==
  LET n == CHOOSE m \in 1..Len(Lines(s)) :
              /\ ~IsSeparatorOnlyLine(Lines(s)[m])
              /\ \A k \in 1..(m - 1) : IsSeparatorOnlyLine(Lines(s)[k])
  IN Lines(s)[n]

\* the trimmed comma-separated fields of a line
FieldsOf(line) ==
  [c \in 1..Len(Split(line, COMMA)) |-> Trim(Split(line, COMMA)[c])]

\* C26 as stated: the first row of the Table is the header whatever it
\* holds: the output begins with the line built from Table row 0, which
\* for a quote-free input is the first input line that is not dropped
\* (leading blank or comma-only lines shift the header to the next line
\* with content), and the separator line is always the second line of the
\* output.
C26_FirstRowIsHeader ==
  (Formatted /\ Len(rows) >= 1) =>
     /\ LET header == FormatRow(NormalizedRows(rows)[1], ColumnWidths(rows))
        IN SubSeq(markdownTable, 1, Len(header)) = header
     /\ ~HasChar(csvinput, {QUOTE}) =>
           rows[1] = FieldsOf(FirstContentLine(csvinput))
     /\ Len(OutputLines) >= 2
     /\ OutputLines[2] =
           <<PIPE, SPACE>>
           \o DashRuns([c \in 1..LongestRow(rows) |-> ExpectedWidth(rows, c)])
           \o <<SPACE, PIPE>>

====
